---------------------------- MODULE Spec2Model ----------------------------
(***************************************************************************)
(* ocpapi.client.client: the Client of the Open Catalyst API.  Every        *)
(* endpoint method builds one request and hands it to Client._run_request,  *)
(* which runs requests.request on a thread of the event loop's default      *)
(* executor (asyncio.to_thread) and turns the transport's result into the   *)
(* response text or into one of the module's exceptions.                    *)
(*                                                                         *)
(* Text is a sequence of tokens: literal pieces of a format string are one  *)
(* token each, data (a body, a header value, a printed number) is one       *)
(* character per token.  An Optional value is <<>> (None) or <<v>>.         *)
(***************************************************************************)
EXTENDS Integers, Sequences, FiniteSets, TLC

VARIABLES
    pc,        \* per call: "idle", "queued", "running", "ready", "done"
    invoked,   \* per call: the endpoint method called and its arguments
    sent,      \* per call: the requests handed to requests.request, in order
    result,    \* per call: Optional result of the transport (response or fault)
    core,      \* per call: Optional outcome of _run_request
    outcome,   \* per call: Optional outcome of the endpoint method
    queue,     \* work items waiting in the default executor
    running,   \* calls whose requests.request runs on an executor thread
    loop,      \* 0: the event loop is free; c: call c's coroutine holds it
    hung,      \* calls whose transport never answers
    ticks      \* steps run by the other tasks of the event loop

vars == <<pc, invoked, sent, result, core, outcome, queue, running, loop, hung, ticks>>

-----------------------------------------------------------------------------
(* Bounds *)

\* Concurrent calls of a run with several calls
NumCalls == 3
\* Threads of the event loop's default executor, which asyncio.to_thread uses
\* (min(32, os.cpu_count() + 4) in CPython)
MaxWorkers == 2
\* Steps of the event loop's other tasks
MaxTicks == 1
\* Characters of a response text
MaxBodyLen == 2
\* Elements of config_ids and of fields
MaxListLen == 2

-----------------------------------------------------------------------------
(* Text *)

None == <<>>
Some(v) == <<v>>

DigitChars == <<"0", "1", "2", "3", "4", "5", "6", "7", "8", "9">>

IsDigit(ch) == \E i \in 1..10 : DigitChars[i] = ch

DigitValue(ch) == (CHOOSE i \in 1..10 : DigitChars[i] = ch) - 1

RECURSIVE IntToStr(_)
\* str(n) of a non-negative int, as f"{response.status_code}" prints it
IntToStr(n) ==
    IF n < 10 THEN <<DigitChars[n + 1]>>
    ELSE IntToStr(n \div 10) \o <<DigitChars[(n % 10) + 1]>>

\* sub in s
Contains(s, sub) ==
    \E i \in 0..(Len(s) - Len(sub)) :
        \A j \in 1..Len(sub) : s[i + j] = sub[j]

RECURSIVE RStrip(_, _)
\* s.rstrip(ch)
RStrip(s, ch) ==
    IF s # <<>> /\ s[Len(s)] = ch THEN RStrip(SubSeq(s, 1, Len(s) - 1), ch) ELSE s

RECURSIVE LStrip(_, _)
LStrip(s, ch) ==
    IF s # <<>> /\ s[1] = ch THEN LStrip(Tail(s), ch) ELSE s

RECURSIVE SeqsUpTo(_, _)
\* every sequence over S of length at most n
SeqsUpTo(S, n) ==
    IF n = 0 THEN {<<>>}
    ELSE LET shorter == SeqsUpTo(S, n - 1)
         IN  shorter \cup {Append(s, x) : s \in shorter, x \in S}

-----------------------------------------------------------------------------
(* float(str) and timedelta(seconds=float), lines 392-394 *)

RECURSIVE DigitsToInt(_)
DigitsToInt(ds) ==
    IF ds = <<>> THEN 0
    ELSE 10 * DigitsToInt(SubSeq(ds, 1, Len(ds) - 1)) + DigitValue(ds[Len(ds)])

AllDigits(ds) == \A i \in 1..Len(ds) : IsDigit(ds[i])

DotPositions(s) == {i \in 1..Len(s) : s[i] = "."}

\* A float: kind "finite" (sign * whole.frac, frac a digit sequence), "nan" or "inf"
Float(kind, neg, whole, frac) == [kind |-> kind, neg |-> neg, whole |-> whole, frac |-> frac]

\* float(s) of a str: <<f>>, or <<>> where Python raises ValueError.  Python strips
\* white space, takes one sign, then "nan", "inf" or a decimal number with digits
\* on at least one side of the point.  (Exponents, underscores and upper case are
\* outside the alphabet the header values below are written in.)
PyFloat(s) ==
    LET t    == RStrip(LStrip(s, " "), " ")
        neg  == t # <<>> /\ t[1] = "-"
        body == IF t # <<>> /\ t[1] \in {"-", "+"} THEN Tail(t) ELSE t
        dots == DotPositions(body)
        dot  == IF dots = {} THEN Len(body) + 1 ELSE CHOOSE i \in dots : TRUE
        whole == SubSeq(body, 1, dot - 1)
        frac  == SubSeq(body, dot + 1, Len(body))
    IN  IF body = <<"n", "a", "n">> THEN Some(Float("nan", neg, 0, <<>>))
        ELSE IF body = <<"i", "n", "f">> THEN Some(Float("inf", neg, 0, <<>>))
        ELSE IF /\ Cardinality(dots) <= 1
                /\ AllDigits(whole) /\ AllDigits(frac)
                /\ Len(whole) + Len(frac) > 0
             THEN Some(Float("finite", neg, DigitsToInt(whole), frac))
        ELSE None

RECURSIVE Pow10(_)
Pow10(n) == IF n = 0 THEN 1 ELSE 10 * Pow10(n - 1)

\* The microseconds of a fraction given by its digits, rounded half to even as
\* timedelta rounds
FracMicros(frac) ==
    IF Len(frac) <= 6 THEN DigitsToInt(frac) * Pow10(6 - Len(frac))
    ELSE LET kept == DigitsToInt(SubSeq(frac, 1, 6))
             rest == SubSeq(frac, 7, Len(frac))
             half == <<"5">>
             restNoZeros == RStrip(rest, "0")
             above == DigitValue(rest[1]) > 5
                      \/ (DigitValue(rest[1]) = 5 /\ restNoZeros # half)
             tie   == restNoZeros = half
         IN  IF above \/ (tie /\ kept % 2 = 1) THEN kept + 1 ELSE kept

\* timedelta(seconds=f): [ok, type, sec, us], normalised as timedelta is
\* (0 <= us < 1000000, the sign carried by sec); nan is a ValueError and inf
\* an OverflowError.
TimeDelta(f) ==
    IF f.kind = "nan" THEN [ok |-> FALSE, type |-> "ValueError", sec |-> 0, us |-> 0]
    ELSE IF f.kind = "inf" THEN [ok |-> FALSE, type |-> "OverflowError", sec |-> 0, us |-> 0]
    ELSE LET us0 == FracMicros(f.frac)
             sec == f.whole + (us0 \div 1000000)
             us  == us0 % 1000000
         IN  IF ~f.neg \/ (sec = 0 /\ us = 0)
             THEN [ok |-> TRUE, type |-> "timedelta", sec |-> sec, us |-> us]
             ELSE IF us = 0
             THEN [ok |-> TRUE, type |-> "timedelta", sec |-> 0 - sec, us |-> 0]
             ELSE [ok |-> TRUE, type |-> "timedelta", sec |-> 0 - sec - 1, us |-> 1000000 - us]

-----------------------------------------------------------------------------
(* The exceptions, lines 23-79 *)

\* What a call gives its caller: a returned value or a raised exception.
\* text is the returned str or the exception's message; retry_after is the
\* attribute RateLimitExceededException sets (Optional timedelta).
Returned(text) == [kind |-> "return", type |-> "str", text |-> text, retry_after |-> None]

Raised(type, message, retry_after) ==
    [kind |-> "raise", type |-> type, text |-> message, retry_after |-> retry_after]

\* super().__init__(f"Request to {method} {url} failed. {cause}")
RequestMessage(method, url, cause) ==
    <<"Request to ", method, " ">> \o url \o <<" failed. ">> \o cause

RequestException(method, url, cause) ==
    Raised("RequestException", RequestMessage(method, url, cause), None)

NonRetryableRequestException(method, url, cause) ==
    Raised("NonRetryableRequestException", RequestMessage(method, url, cause), None)

RateLimitExceededException(method, url, retry_after) ==
    Raised("RateLimitExceededException",
           RequestMessage(method, url, <<"Exceeded rate limit">>), retry_after)

\* The classes of the module and their bases
RequestExceptionClasses ==
    {"RequestException", "NonRetryableRequestException", "RateLimitExceededException"}

\* isinstance(e, RequestException)
IsRequestException(o) == o.kind = "raise" /\ o.type \in RequestExceptionClasses

-----------------------------------------------------------------------------
(* Client.__init__, lines 87-97 *)

DefaultBaseUrl == <<"https://open-catalyst-api.metademolab.com/ocp", "/">>

\* self._base_url = base_url.rstrip("/")
BaseUrl == RStrip(DefaultBaseUrl, "/")

-----------------------------------------------------------------------------
(* The endpoint methods, lines 99-346: each builds one request *)

\* A call of an endpoint method: its name and arguments.  sid is system_id, arg
\* the remaining positional data (a bulk, an ephemeral flag) as tokens,
\* config_ids and fields the Optional lists of the results endpoint.
Invocation(ep, sid, arg, config_ids, fields) ==
    [ep |-> ep, sid |-> sid, arg |-> arg, config_ids |-> config_ids, fields |-> fields]

\* The keyword arguments passed on to requests.request: each Optional
Kwargs(params, data, headers) == [params |-> params, data |-> data, headers |-> headers]

Request(method, url, kwargs) == [method |-> method, url |-> url, kwargs |-> kwargs]

JsonContentType == Some(<<"Content-Type", "application/json">>)

\* `if fields is not None:`
IsNotNone(optlist) == optlist # None

\* `if fields:` / `if config_ids:`: an Optional list is true when it is a
\* list and is not empty
Truthy(optlist) == optlist # None /\ optlist[1] # <<>>

\* Lines 316-320: params = {}; a key is set only for a true list
ResultsParams(config_ids, fields) ==
    [field     |-> IF Truthy(fields) THEN Some(fields[1]) ELSE None,
     config_id |-> IF Truthy(config_ids) THEN Some(config_ids[1]) ELSE None]

\* The request each endpoint method builds
RequestOf(inv) ==
    CASE inv.ep = "get_bulks" ->
            Request("GET", BaseUrl \o <<"/bulks">>, Kwargs(None, None, None))
      [] inv.ep = "get_adsorbates" ->
            Request("GET", BaseUrl \o <<"/adsorbates">>, Kwargs(None, None, None))
      [] inv.ep = "get_slabs" ->
            \* bulk.src_id if isinstance(bulk, Bulk) else bulk
            Request("POST", BaseUrl \o <<"/slabs">>,
                    Kwargs(None, Some(<<"bulk_src_id", inv.arg[2]>>), JsonContentType))
      [] inv.ep = "get_adsorbate_slab_configs" ->
            Request("POST", BaseUrl \o <<"/adsorbate-slab-configs">>,
                    Kwargs(None, Some(<<"adsorbate", "slab">>), JsonContentType))
      [] inv.ep = "submit_adsorbate_slab_relaxations" ->
            Request("POST", BaseUrl \o <<"/adsorbate-slab-relaxations">>,
                    Kwargs(None,
                           Some(<<"adsorbate", "adsorbate_configs", "bulk", "slab",
                                  "model", "ephemeral">> \o inv.arg),
                           JsonContentType))
      [] inv.ep = "get_adsorbate_slab_relaxations_request" ->
            Request("GET", BaseUrl \o <<"/adsorbate-slab-relaxations/">> \o inv.sid,
                    Kwargs(None, None, None))
      [] inv.ep = "get_adsorbate_slab_relaxations_results" ->
            Request("GET",
                    BaseUrl \o <<"/adsorbate-slab-relaxations/">> \o inv.sid \o <<"/configs">>,
                    Kwargs(Some(ResultsParams(inv.config_ids, inv.fields)), None, None))
      [] inv.ep = "delete_adsorbate_slab_relaxations" ->
            Request("DELETE", BaseUrl \o <<"/adsorbate-slab-relaxations/">> \o inv.sid,
                    Kwargs(None, None, None))

\* X.from_json(response) of the models module: the decoded value, or the
\* decoder's error on a text it rejects
Decoded(ep, text, accepted) ==
    IF accepted THEN Returned(<<ep>> \o text)
    ELSE Raised("DecodeError", text, None)

\* What the endpoint method gives its caller once _run_request gave `o`:
\* an exception passes through; delete returns None; the others decode.
EndpointOutcome(inv, o, accepted) ==
    IF o.kind = "raise" THEN o
    ELSE IF inv.ep = "delete_adsorbate_slab_relaxations" THEN Returned(<<"None">>)
    ELSE Decoded(inv.ep, o.text, accepted)

-----------------------------------------------------------------------------
(* Client._run_request after the transport answered, lines 377-417 *)

\* A result of requests.request: a raised exception (type name, message) or a
\* response (status_code, headers, text)
Fault(etype, emsg) ==
    [fault |-> TRUE, etype |-> etype, emsg |-> emsg, status |-> 0, headers |-> <<>>, text |-> <<>>]

Response(status, headers, text) ==
    [fault |-> FALSE, etype |-> "", emsg |-> <<>>, status |-> status, headers |-> headers, text |-> text]

\* Header names compare without case (requests' CaseInsensitiveDict)
LowerName(name) == IF name = "Retry-After" THEN "retry-after" ELSE name

\* response.headers.get(name, None); headers is a sequence of <<name, value>>
HeadersGet(headers, name) ==
    LET hits == {i \in 1..Len(headers) : LowerName(headers[i][1]) = LowerName(name)}
    IN  IF hits = {} THEN None
        ELSE Some(headers[CHOOSE i \in hits : \A j \in hits : i <= j][2])

\* Line 381 with str(e) alone
TransportCauseWithoutType(r) ==
    <<"Exception while making request: ">> \o r.emsg

\* f"Exception while making request: {type(e).__name__}: {e}", line 381
TransportCause(r) ==
    <<"Exception while making request: ", r.etype, ": ">> \o r.emsg

\* Lines 399-402
StatusCause(r) ==
    <<"Unexpected response code: ">> \o IntToStr(r.status)
        \o <<". Response body: ">> \o r.text

\* Line 385 with the boundary at 200
StatusIsErrorFrom200(code) == code >= 200

\* Line 385
StatusIsError(code) == code >= 300

\* Line 387
StatusIsRateLimit(code) == code = 429

\* Line 403 with 400 itself left out
StatusIsClientErrorAbove400(code) == code > 400 /\ code < 500

\* Line 403 without its upper limit
StatusIsClientErrorUnbounded(code) == code >= 400

\* Line 403
StatusIsClientError(code) == code >= 400 /\ code < 500

\* Lines 388-395: timedelta(seconds=float(retry_after)) if retry_after is not
\* None else None.  float and timedelta raise inside the argument list, so
\* their exception leaves _run_request as it is.
RateLimited(method, url, r) ==
    LET retry_after == HeadersGet(r.headers, "Retry-After")
    IN  IF retry_after = None THEN RateLimitExceededException(method, url, None)
        ELSE LET f == PyFloat(retry_after[1])
             IN  IF f = None
                 THEN Raised("ValueError",
                             <<"could not convert string to float: ">> \o retry_after[1],
                             None)
                 ELSE LET td == TimeDelta(f[1])
                      IN  IF ~td.ok
                          THEN Raised(td.type, <<"cannot convert float to integer">>, None)
                          ELSE RateLimitExceededException(
                                   method, url, Some([sec |-> td.sec, us |-> td.us]))

\* The outcome of _run_request(url, method, **kwargs) for transport result r
RunRequestOutcome(method, url, r) ==
    IF r.fault THEN RequestException(method, url, TransportCause(r))
    ELSE IF StatusIsError(r.status)
         THEN IF StatusIsRateLimit(r.status) THEN RateLimited(method, url, r)
              ELSE IF StatusIsClientError(r.status)
                   THEN NonRetryableRequestException(method, url, StatusCause(r))
                   ELSE RequestException(method, url, StatusCause(r))
         ELSE Returned(r.text)

-----------------------------------------------------------------------------
(* Inputs *)

SystemIds == {<<"s", "1">>}

StatusCodes == {100, 200, 299, 300, 399, 400, 404, 428, 429, 430, 499, 500, 599}

BodyChars == {"a", "4"}

Bodies == SeqsUpTo(BodyChars, MaxBodyLen)

\* Values a server may put in Retry-After: seconds, an HTTP date, anything
RetryAfterValues ==
    { <<"3", ".", "5">>, <<"0">>, <<"1", "2", "0">>, <<" ", "7">>, <<".", "2", "5">>,
      <<"-", "1">>, <<>>, <<"s", "o", "o", "n">>, <<"1", ".", "2", ".", "3">>,
      <<"n", "a", "n">>, <<"i", "n", "f">>,
      <<"W", "e", "d", ",", " ", "2", "1">> }

HeaderSets ==
    {<<>>, << <<"X-RateLimit-Reset", <<"9">>>> >>, << <<"retry-after", <<"3", ".", "5">>>> >>}
        \cup { << <<"Retry-After", v>> >> : v \in RetryAfterValues }

Faults ==
    { Fault("ConnectionError", <<"r", "e", "f", "u", "s", "e", "d">>),
      Fault("Timeout", <<>>) }

TransportResults ==
    Faults \cup { Response(st, h, b) : st \in StatusCodes, h \in HeaderSets, b \in Bodies }

OptLists(S, n) == {None} \cup { Some(l) : l \in SeqsUpTo(S, n) }

ConfigIdValues == {1, 2}

FieldValues == {"energy", "pos"}

ResultsInvocations(n) ==
    { Invocation("get_adsorbate_slab_relaxations_results", sid, <<>>, cs, fs) :
        sid \in SystemIds, cs \in OptLists(ConfigIdValues, n), fs \in OptLists(FieldValues, n) }

PlainInvocations ==
    { Invocation(ep, <<>>, <<>>, None, None) :
        ep \in {"get_bulks", "get_adsorbates", "get_adsorbate_slab_configs"} }
    \cup { Invocation("get_slabs", <<>>, b, None, None) :
             b \in { <<"str", "mp-149">>, <<"Bulk", "mp-149">> } }
    \cup { Invocation("submit_adsorbate_slab_relaxations", <<>>, <<e>>, None, None) :
             e \in {"True", "False"} }
    \cup { Invocation(ep, sid, <<>>, None, None) :
             ep \in {"get_adsorbate_slab_relaxations_request",
                     "delete_adsorbate_slab_relaxations"},
             sid \in SystemIds }

\* Every endpoint, the results endpoint with lists of at most one element
Invocations == PlainInvocations \cup ResultsInvocations(1)

\* Every endpoint, the results endpoint with lists up to MaxListLen
ListInvocations == PlainInvocations \cup ResultsInvocations(MaxListLen)

FewResults ==
    { Response(200, <<>>, <<"a">>), Response(404, <<>>, <<"a">>),
      Response(429, << <<"Retry-After", <<"3", ".", "5">>>> >>, <<>>),
      Fault("ConnectionError", <<"r", "e", "f", "u", "s", "e", "d">>) }

FairInvocations == { Invocation("get_bulks", <<>>, <<>>, None, None) }

FairResults == { Response(200, <<>>, <<>>), Response(503, <<>>, <<>>) }

-----------------------------------------------------------------------------
(* The calls *)

Free == 0

InitWith(ids) ==
    /\ pc = [c \in ids |-> "idle"]
    /\ invoked = [c \in ids |-> None]
    /\ sent = [c \in ids |-> <<>>]
    /\ result = [c \in ids |-> None]
    /\ core = [c \in ids |-> None]
    /\ outcome = [c \in ids |-> None]
    /\ queue = <<>>
    /\ running = {}
    /\ loop = Free
    /\ hung \in SUBSET ids
    /\ ticks = 0

Calls == DOMAIN pc

\* requests.request(...) called in the coroutine itself: the request runs on
\* the event loop's thread, which is held until the transport answers.
RunInline(c) ==
    /\ running' = running \cup {c}
    /\ sent' = [sent EXCEPT ![c] = Append(@, RequestOf(invoked'[c][1]))]
    /\ pc' = [pc EXCEPT ![c] = "running"]
    /\ loop' = c
    /\ UNCHANGED queue

\* await asyncio.to_thread(requests.request, ...), lines 371-376: the call is
\* handed to the loop's default executor and the coroutine is suspended, which
\* gives the event loop back.
ToThread(c) ==
    /\ queue' = Append(queue, c)
    /\ pc' = [pc EXCEPT ![c] = "queued"]
    /\ loop' = Free
    /\ UNCHANGED <<sent, running>>

\* An endpoint method is called: it builds its request and _run_request
\* dispatches it.
Invoke(c, inv) ==
    /\ pc[c] = "idle"
    /\ loop = Free
    /\ invoked' = [invoked EXCEPT ![c] = Some(inv)]
    /\ ToThread(c)
    /\ UNCHANGED <<result, core, outcome, hung, ticks>>

\* A free thread of the executor takes the oldest work item and calls
\* requests.request(method=method, url=url, **kwargs).
WorkerStart(c) ==
    /\ queue # <<>>
    /\ Head(queue) = c
    /\ Cardinality(running) < MaxWorkers
    /\ queue' = Tail(queue)
    /\ running' = running \cup {c}
    /\ sent' = [sent EXCEPT ![c] = Append(@, RequestOf(invoked[c][1]))]
    /\ pc' = [pc EXCEPT ![c] = "running"]
    /\ UNCHANGED <<invoked, result, core, outcome, loop, hung, ticks>>

\* requests.request returns or raises on its thread; the future is resolved
\* and the thread is free again.  (A coroutine that had waited on the loop's
\* own thread would give the loop back here; ToThread never holds it.)
TransportReturn(c, r) ==
    /\ c \in running
    /\ c \notin hung
    /\ result' = [result EXCEPT ![c] = Some(r)]
    /\ running' = running \ {c}
    /\ pc' = [pc EXCEPT ![c] = "ready"]
    /\ loop' = IF loop = c THEN Free ELSE loop
    /\ UNCHANGED <<invoked, sent, core, outcome, queue, hung, ticks>>

\* _run_request dispatching once more after a fault of the transport
FinishOrRetry(c) ==
    IF result[c][1].fault /\ Len(sent[c]) < 2
    THEN /\ queue' = Append(queue, c)
         /\ pc' = [pc EXCEPT ![c] = "queued"]
         /\ result' = [result EXCEPT ![c] = None]
         /\ UNCHANGED <<core, outcome>>
    ELSE LET req == sent[c][Len(sent[c])]
             o   == RunRequestOutcome(req.method, req.url, result[c][1])
         IN  /\ core' = [core EXCEPT ![c] = Some(o)]
             /\ \E accepted \in BOOLEAN :
                   outcome' = [outcome EXCEPT ![c] = Some(EndpointOutcome(invoked[c][1], o, accepted))]
             /\ pc' = [pc EXCEPT ![c] = "done"]
             /\ UNCHANGED <<queue, result>>

\* _run_request goes on after the await with the transport's result, and the
\* endpoint method after it: both finish in this step of the event loop.
Finish(c) ==
    LET req == sent[c][Len(sent[c])]
        o   == RunRequestOutcome(req.method, req.url, result[c][1])
    IN  /\ core' = [core EXCEPT ![c] = Some(o)]
        /\ \E accepted \in BOOLEAN :
              outcome' = [outcome EXCEPT ![c] = Some(EndpointOutcome(invoked[c][1], o, accepted))]
        /\ pc' = [pc EXCEPT ![c] = "done"]
        /\ UNCHANGED <<queue, result>>

\* The event loop resumes the suspended coroutine of call c
Resume(c) ==
    /\ pc[c] = "ready"
    /\ loop = Free
    /\ Finish(c)
    /\ UNCHANGED <<invoked, sent, running, loop, hung, ticks>>

\* Another task of the same event loop runs a step
OtherTask ==
    /\ loop = Free
    /\ ticks < MaxTicks
    /\ ticks' = ticks + 1
    /\ UNCHANGED <<pc, invoked, sent, result, core, outcome, queue, running, loop, hung>>

\* The calls of a run with one call, and of a run with concurrent calls
OneCall == {1}
ConcurrentCalls == 1..NumCalls

\* One call, every endpoint, every transport result
Init == InitWith(OneCall)

Next ==
    \E c \in OneCall :
        \/ \E inv \in Invocations : Invoke(c, inv)
        \/ WorkerStart(c)
        \/ \E r \in TransportResults : TransportReturn(c, r)
        \/ Resume(c)

Spec == Init /\ [][Next]_vars

\* One call, the results endpoint with every pair of lists
ListNext ==
    \E c \in OneCall :
        \/ \E inv \in ListInvocations : Invoke(c, inv)
        \/ WorkerStart(c)
        \/ \E r \in FewResults : TransportReturn(c, r)
        \/ Resume(c)

ListSpec == Init /\ [][ListNext]_vars

\* Concurrent calls beside other tasks.  The executor's threads and the event
\* loop keep running: a thread that is free takes the next work item, a
\* transport that is not hung answers, the loop resumes a coroutine whose
\* future is resolved and runs its other tasks.
FairInit == InitWith(ConcurrentCalls)

FairNext ==
    \/ \E c \in ConcurrentCalls :
          \/ \E inv \in FairInvocations : Invoke(c, inv)
          \/ WorkerStart(c)
          \/ \E r \in FairResults : TransportReturn(c, r)
          \/ Resume(c)
    \/ OtherTask

FairSpec ==
    /\ FairInit
    /\ [][FairNext]_vars
    /\ \A c \in ConcurrentCalls :
          /\ WF_vars(WorkerStart(c))
          /\ WF_vars(\E r \in FairResults : TransportReturn(c, r))
          /\ WF_vars(Resume(c))
    /\ WF_vars(OtherTask)

-----------------------------------------------------------------------------
(* Properties *)

IsDone(c) == pc[c] = "done"

\* The transport's result, the outcome of _run_request and the request of a
\* call that is done
ResultOf(c) == result[c][1]
CoreOf(c) == core[c][1]
SentOf(c) == sent[c][1]

GotStatus(c) == IsDone(c) /\ ~ResultOf(c).fault

\* The cause passed to the exception: its message after "... failed. "
CauseOf(c) ==
    LET o == CoreOf(c)
        head == RequestMessage(SentOf(c).method, SentOf(c).url, <<>>)
    IN  SubSeq(o.text, Len(head) + 1, Len(o.text))

CauseNamesStatusAndBody(c) ==
    /\ Contains(CauseOf(c), IntToStr(ResultOf(c).status))
    /\ Contains(CauseOf(c), ResultOf(c).text)

\* C1: every call of _run_request that ends has exactly one outcome, and it is
\* the response text or one of the module's request exceptions, whatever the
\* transport gave.
EveryOutcomeIsClassified ==
    \A c \in Calls :
        IsDone(c) =>
            /\ Len(core[c]) = 1
            /\ CoreOf(c).kind = "return" \/ IsRequestException(CoreOf(c))

\* C2: a response with a status code below 300 makes _run_request return, and
\* the value is the response's text as it is.
SuccessReturnsBodyVerbatim ==
    \A c \in Calls :
        (GotStatus(c) /\ ResultOf(c).status < 300) =>
            /\ CoreOf(c).kind = "return"
            /\ CoreOf(c).text = ResultOf(c).text

SuccessReturnsBodyVerbatimWitness ==
    \E c \in Calls :
        /\ GotStatus(c) /\ ResultOf(c).status = 299
        /\ ResultOf(c).headers # <<>>
        /\ Len(ResultOf(c).text) = MaxBodyLen
        /\ CoreOf(c).kind = "return"

\* C3: a response with a status code in 400..499 other than 429 raises
\* NonRetryableRequestException, whose cause holds the status code and the
\* whole response text.
ClientErrorIsNonRetryable ==
    \A c \in Calls :
        (/\ GotStatus(c)
         /\ ResultOf(c).status >= 400 /\ ResultOf(c).status <= 499
         /\ ResultOf(c).status # 429) =>
            /\ CoreOf(c).kind = "raise"
            /\ CoreOf(c).type = "NonRetryableRequestException"
            /\ CauseNamesStatusAndBody(c)

ClientErrorIsNonRetryableWitness ==
    \E c \in Calls :
        /\ GotStatus(c) /\ ResultOf(c).status = 400
        /\ ResultOf(c).text = <<"a", "a">>
        /\ CoreOf(c).type = "NonRetryableRequestException"
        /\ outcome[c] = core[c]

\* C4: a response with a status code of 500 or more, or in 300..399, raises a
\* plain RequestException, whose cause holds the status code and the whole
\* response text in the format of the client error's cause.
ServerErrorIsPlainRequestException ==
    \A c \in Calls :
        (/\ GotStatus(c)
         /\ \/ ResultOf(c).status >= 500
            \/ ResultOf(c).status >= 300 /\ ResultOf(c).status <= 399) =>
            /\ CoreOf(c).kind = "raise"
            /\ CoreOf(c).type = "RequestException"
            /\ CauseNamesStatusAndBody(c)
            /\ CauseOf(c) = <<"Unexpected response code: ">> \o IntToStr(ResultOf(c).status)
                                \o <<". Response body: ">> \o ResultOf(c).text

ServerErrorIsPlainRequestExceptionWitness ==
    /\ \E c \in Calls :
          /\ GotStatus(c) /\ ResultOf(c).status = 300
          /\ ResultOf(c).text = <<"a", "4">>
          /\ CoreOf(c).type = "RequestException"

\* A Retry-After value that is a number of seconds, not negative
IsNonNegativeNumber(s) ==
    /\ PyFloat(s) # None
    /\ PyFloat(s)[1].kind = "finite"
    /\ ~PyFloat(s)[1].neg

\* The seconds and microseconds such a value names
SecondsNamed(s) ==
    [sec |-> PyFloat(s)[1].whole, us |-> FracMicros(PyFloat(s)[1].frac)]

\* C5: a response with status code 429 raises RateLimitExceededException, and
\* a Retry-After header that is a number of seconds, not negative, is its
\* retry_after.
RateLimitAlwaysClassified ==
    \A c \in Calls :
        (GotStatus(c) /\ ResultOf(c).status = 429) =>
            /\ CoreOf(c).kind = "raise"
            /\ CoreOf(c).type = "RateLimitExceededException"
            /\ LET h == HeadersGet(ResultOf(c).headers, "Retry-After")
               IN  (h # None /\ IsNonNegativeNumber(h[1])) =>
                       CoreOf(c).retry_after = Some(SecondsNamed(h[1]))

\* C6: a response with status code 429 whose Retry-After header is absent or
\* is no number raises RateLimitExceededException with retry_after None.
UnusableRetryAfterGivesNoHint ==
    \A c \in Calls :
        (/\ GotStatus(c) /\ ResultOf(c).status = 429
         /\ LET h == HeadersGet(ResultOf(c).headers, "Retry-After")
            IN  h = None \/ PyFloat(h[1]) = None) =>
            /\ CoreOf(c).kind = "raise"
            /\ CoreOf(c).type = "RateLimitExceededException"
            /\ CoreOf(c).retry_after = None

\* C7: a fault of the transport raises a plain RequestException naming the
\* call's method and URL, whose cause holds the fault's type name and message;
\* the endpoint method raises the same exception.
TransportFaultIsRequestException ==
    \A c \in Calls :
        (IsDone(c) /\ ResultOf(c).fault) =>
            /\ CoreOf(c).kind = "raise"
            /\ CoreOf(c).type = "RequestException"
            /\ Contains(CoreOf(c).text, <<SentOf(c).method>>)
            /\ Contains(CoreOf(c).text, SentOf(c).url)
            /\ Contains(CauseOf(c), <<ResultOf(c).etype>>)
            /\ Contains(CauseOf(c), ResultOf(c).emsg)
            /\ outcome[c] = core[c]

TransportFaultIsRequestExceptionWitness ==
    \E c \in Calls :
        /\ IsDone(c) /\ ResultOf(c).fault
        /\ ResultOf(c).etype = "ConnectionError"
        /\ SentOf(c).method = "DELETE"
        /\ CoreOf(c).type = "RequestException"

\* C8: a call hands exactly one request to the transport, whatever its
\* outcome: none after a failure, and one by the time the call is done.
DispatchedExactlyOnce ==
    \A c \in Calls :
        /\ Len(sent[c]) <= 1
        /\ pc[c] \in {"running", "ready", "done"} => Len(sent[c]) = 1

DispatchedExactlyOnceWitness ==
    \E c \in Calls :
        /\ IsDone(c)
        /\ ResultOf(c).fault \/ ResultOf(c).status >= 300
        /\ CoreOf(c).kind = "raise"
        /\ Len(sent[c]) = 1

\* What is sent for an Optional list argument: nothing, or the list
SentParam(optlist, param) ==
    IF optlist = None \/ optlist[1] = <<>> THEN param = None ELSE param = optlist

\* C9: the results endpoint sends no config_id (field) parameter for an empty
\* list, as for an omitted one, so that the request is the one sent with the
\* argument omitted; a list that is not empty is sent as it is.
EmptyListIsOmitted ==
    \A c \in Calls :
        (sent[c] # <<>> /\ invoked[c][1].ep = "get_adsorbate_slab_relaxations_results") =>
            LET inv == invoked[c][1]
                params == SentOf(c).kwargs.params[1]
            IN  /\ SentParam(inv.config_ids, params.config_id)
                /\ SentParam(inv.fields, params.field)
                /\ inv.config_ids = Some(<<>>) =>
                       SentOf(c) = RequestOf([inv EXCEPT !.config_ids = None])
                /\ inv.fields = Some(<<>>) =>
                       SentOf(c) = RequestOf([inv EXCEPT !.fields = None])

EmptyListIsOmittedWitness ==
    \E c \in Calls :
        /\ IsDone(c)
        /\ invoked[c][1].config_ids = Some(<<>>)
        /\ invoked[c][1].fields = Some(<<"pos", "energy">>)
        /\ SentOf(c).kwargs.params[1].config_id = None
        /\ SentOf(c).kwargs.params[1].field = Some(<<"pos", "energy">>)

\* C10, as claimed: whatever number of calls hang in their transport, every
\* other call whose transport answers reaches its outcome.
HungCallsStarveNoCall ==
    \A c \in ConcurrentCalls :
        (pc[c] = "queued" /\ c \notin hung) ~> (pc[c] = "done")

\* C10, amended: the event loop is never held while a call waits for its
\* transport, its other tasks get their steps, and while fewer calls hang than
\* the executor has threads every other call whose transport answers reaches
\* its outcome.
HungCallsBelowPoolStarveNoCall ==
    /\ [](\A c \in ConcurrentCalls : pc[c] \in {"queued", "running"} => loop = Free)
    /\ (ticks < MaxTicks) ~> (ticks = MaxTicks)
    /\ \A c \in ConcurrentCalls :
          (pc[c] = "queued" /\ c \notin hung /\ Cardinality(hung) < MaxWorkers)
              ~> (pc[c] = "done")

HungCallsBelowPoolStarveNoCallWitness ==
    \E h \in Calls :
        /\ h \in hung /\ h \in running
        /\ Cardinality(hung) < MaxWorkers
        /\ \A c \in Calls \ {h} : IsDone(c)
        /\ ticks = MaxTicks

=============================================================================
